---- MODULE Spec2Model ----
(***************************************************************************)
(* Model of update_utils/update_goldsky.py: the cursor recovery            *)
(* get_latest_cursor() and the paginated harvester scrape().               *)
(*                                                                         *)
(* The remote source is a finite set of events (timestamp, id), the id     *)
(* being the key of the event; a fetch returns the first at_once rows      *)
(* matching the where clause in (timestamp, id) order.  The remote may     *)
(* list an event twice, which is what line 177 guards against.  The code   *)
(* compares ids for equality and, inside one timestamp, for order; so the  *)
(* events of a source are numbered 1, 2, ... in (timestamp, id) order.     *)
(* Timestamps are positive epoch seconds inside the range                  *)
(* datetime.fromtimestamp accepts, so the log-line formatting of lines 43, *)
(* 55 and 144 has no effect on control flow.                               *)
(*                                                                         *)
(* The store goldsky/orderFilled.csv is a file: a sequence of lines, each  *)
(* line a sequence of comma-separated field tokens.  The id column is not  *)
(* among COLUMNS_TO_SAVE; the payload token of a row carries the id of the *)
(* event it was written from, and no action reads it back.                 *)
(***************************************************************************)
EXTENDS Integers, Sequences, FiniteSets, TLC

\* ---- bounds -------------------------------------------------------------
MaxTs == 2          \* source timestamps are 1..MaxTs
MaxId == 4          \* the remote lists at most MaxId rows; ids are 1..MaxId
MaxPage == 3        \* at_once ranges over 1..MaxPage
MaxRuns == 2        \* scrape() is started at most MaxRuns times
MaxRetries == 2     \* most consecutive fetch errors that are counted
MaxFileLines == 2   \* most lines of an arbitrary store file
MaxTokInt == 2      \* numeric field tokens are 1..MaxTokInt
MaxStickyPage == 3  \* at_once of the single-timestamp sources is 2..MaxStickyPage

\* Python None (absent id, absent sticky_timestamp)
None == -1

\* ---- field tokens of the csv file ----------------------------------------
IntTok(n) == [kind |-> "int", val |-> n]       \* the decimal string of n
FloatTok(n) == [kind |-> "float", val |-> n]   \* the string "n.5"
TextTok(n) == [kind |-> "text", val |-> n]     \* an opaque non-numeric string
ColTok(n) == [kind |-> "col", val |-> n]       \* a column name
EmptyTok == [kind |-> "empty", val |-> 0]      \* the empty string

TimestampName == ColTok(0)                     \* the string 'timestamp'
COLUMNS_TO_SAVE == <<TimestampName, ColTok(1)>>

AbsentFile == [exists |-> FALSE, lines |-> <<>>]

Contains(seq, x) == \E i \in 1..Len(seq) : seq[i] = x

\* list.index: position of the first occurrence
index(seq, x) == CHOOSE i \in 1..Len(seq) : seq[i] = x /\ \A j \in 1..(i - 1) : seq[j] # x

\* str.strip() of a line is empty exactly for the blank line
IsBlank(line) == line = <<EmptyTok>>

\* int(str) succeeds on a decimal string only
IntOfStrOk(tok) == tok.kind = "int"

\* ---- get_latest_cursor ----------------------------------------------------
Fall == [out |-> "fall", ts |-> 0]
Except == [out |-> "except", ts |-> 0]
Ret(t) == [out |-> "return", ts |-> t]

\* lines 30-47: the tail/head path
tail_path(f, tailOk) ==
    IF ~tailOk THEN Except
    ELSE IF f.lines = <<>> THEN Fall
    ELSE LET last_line == f.lines[Len(f.lines)]
             headers == f.lines[1]
         IN IF IsBlank(last_line) THEN Fall
            ELSE IF ~Contains(headers, TimestampName) THEN Fall
            ELSE LET timestamp_index == index(headers, TimestampName)
                 IN IF ~(Len(last_line) >= timestamp_index) THEN Fall
                    ELSE IF ~IntOfStrOk(last_line[timestamp_index]) THEN Except
                    ELSE Ret(last_line[timestamp_index].val - 1)

\* pd.read_csv skips blank lines; the first remaining line names the columns
NonBlank(lines) == SelectSeq(lines, LAMBDA l : ~IsBlank(l))

\* lines 51-57: the pandas fallback.  A column holding any non-numeric
\* string is read as strings, otherwise as numbers, and int() of the number
\* n.5 is n while int() of the string "n.5" raises.
pandas_path(f, pandasOk) ==
    IF ~pandasOk THEN Except
    ELSE LET rows == NonBlank(f.lines)
         IN IF rows = <<>> THEN Except
            ELSE LET columns == rows[1]
                     df == Tail(rows)
                 IN IF ~(Len(df) > 0 /\ Contains(columns, TimestampName)) THEN Fall
                    ELSE LET c == index(columns, TimestampName)
                             cell(r) == IF Len(r) >= c THEN r[c] ELSE EmptyTok
                             asStrings == \E i \in 1..Len(df) : cell(df[i]).kind \in {"text", "col"}
                             last_timestamp == cell(df[Len(df)])
                         IN IF last_timestamp.kind = "int" THEN Ret(last_timestamp.val - 1)
                            ELSE IF last_timestamp.kind = "float" /\ ~asStrings
                                 THEN Ret(last_timestamp.val - 1)
                            ELSE Except

\* get_latest_cursor without the inner try/except of lines 51-59
get_latest_cursor_unguarded(f, tailOk, pandasOk) ==
    IF ~f.exists THEN [raised |-> FALSE, timestamp |-> 0, id |-> None]
    ELSE LET t == tail_path(f, tailOk)
         IN IF t.out = "return" THEN [raised |-> FALSE, timestamp |-> t.ts, id |-> None]
            ELSE IF t.out = "fall" THEN [raised |-> FALSE, timestamp |-> 0, id |-> None]
            ELSE LET p == pandas_path(f, pandasOk)
                 IN IF p.out = "return" THEN [raised |-> FALSE, timestamp |-> p.ts, id |-> None]
                    ELSE IF p.out = "except" THEN [raised |-> TRUE, timestamp |-> 0, id |-> None]
                    ELSE [raised |-> FALSE, timestamp |-> 0, id |-> None]

\* get_latest_cursor returning the timestamp itself instead of timestamp - 1
get_latest_cursor_same_ts(f, tailOk, pandasOk) ==
    IF ~f.exists THEN [raised |-> FALSE, timestamp |-> 0, id |-> None]
    ELSE LET t == tail_path(f, tailOk)
         IN IF t.out = "return" THEN [raised |-> FALSE, timestamp |-> t.ts + 1, id |-> None]
            ELSE IF t.out = "fall" THEN [raised |-> FALSE, timestamp |-> 0, id |-> None]
            ELSE LET p == pandas_path(f, pandasOk)
                 IN IF p.out = "return" THEN [raised |-> FALSE, timestamp |-> p.ts + 1, id |-> None]
                    ELSE [raised |-> FALSE, timestamp |-> 0, id |-> None]

\* lines 20-63
get_latest_cursor(f, tailOk, pandasOk) ==
    IF ~f.exists THEN [raised |-> FALSE, timestamp |-> 0, id |-> None]
    ELSE LET t == tail_path(f, tailOk)
         IN IF t.out = "return" THEN [raised |-> FALSE, timestamp |-> t.ts, id |-> None]
            ELSE IF t.out = "fall" THEN [raised |-> FALSE, timestamp |-> 0, id |-> None]
            ELSE LET p == pandas_path(f, pandasOk)
                 IN IF p.out = "return" THEN [raised |-> FALSE, timestamp |-> p.ts, id |-> None]
                    ELSE [raised |-> FALSE, timestamp |-> 0, id |-> None]


\* ---- the remote source ----------------------------------------------------
Event(t, i) == [timestamp |-> t, id |-> i]
\* the sources of k events: event i has timestamp ts[i], timestamps ascending
SourcesOfSize(k) ==
    {{Event(ts[i], i) : i \in 1..k} :
        ts \in {f \in [1..k -> 1..MaxTs] : \A i \in 1..k, j \in 1..k : i < j => f[i] <= f[j]}}
Sources(n) == UNION {SourcesOfSize(k) : k \in 0..n}

\* (timestamp, id) ascending
Before(a, b) == a.timestamp < b.timestamp \/ (a.timestamp = b.timestamp /\ a.id < b.id)

\* the rows the remote lists for the events S, those of rep twice
RECURSIVE Listing(_, _)
Listing(S, rep) ==
    IF S = {} THEN <<>>
    ELSE LET m == CHOOSE x \in S : \A y \in S \ {x} : Before(x, y)
         IN (IF m \in rep THEN <<m, m>> ELSE <<m>>) \o Listing(S \ {m}, rep)

Take(seq, n) == SubSeq(seq, 1, IF Len(seq) < n THEN Len(seq) ELSE n)

\* lines 86-92: the filter of the next fetch
where_clause_of(sticky, ts, id) ==
    IF sticky # None
    THEN [op |-> "timestamp_id_gt", timestamp |-> sticky, id |-> id]
    ELSE [op |-> "timestamp_gt", timestamp |-> ts, id |-> None]

Matches(e, w) ==
    IF w.op = "timestamp_id_gt"
    THEN e.timestamp = w.timestamp /\ e.id > w.id
    ELSE e.timestamp > w.timestamp

\* lines 94-118: orderFilledEvents(orderBy: timestamp, asc, first: at_once, where: ...)
execute(src, rep, w, n) == Take(Listing({e \in src : Matches(e, w)}, rep), n)

\* line 138
sort_values(df) == SortSeq(df, Before)

\* line 177 left out
drop_duplicates_none(df) == df

\* line 177: keep the first row of every id
RECURSIVE drop_duplicates(_)
drop_duplicates(df) ==
    IF df = <<>> THEN <<>>
    ELSE LET front == drop_duplicates(SubSeq(df, 1, Len(df) - 1))
             x == df[Len(df)]
         IN IF \E i \in 1..Len(front) : front[i].id = x.id THEN front ELSE Append(front, x)

\* line 180: the saved columns of one event
RowOf(e) == <<IntTok(e.timestamp), TextTok(e.id)>>
RowsOf(df) == [i \in 1..Len(df) |-> RowOf(df[i])]

\* lines 183-186 with the existing file opened in mode 'w'
to_csv_overwrite(f, df) ==
    [exists |-> TRUE, lines |-> (IF f.exists THEN <<>> ELSE <<COLUMNS_TO_SAVE>>) \o RowsOf(df)]

\* lines 183-186: append without header to an existing file, else create with header
to_csv(f, df) ==
    IF f.exists
    THEN [exists |-> TRUE, lines |-> f.lines \o RowsOf(df)]
    ELSE [exists |-> TRUE, lines |-> <<COLUMNS_TO_SAVE>> \o RowsOf(df)]

\* ---- state ----------------------------------------------------------------
VARIABLES source, repeated, at_once, file, tail_ok, pandas_ok,
          pc, last_timestamp, last_id, sticky_timestamp, count, total_records,
          runs, nerr, batches, start_file, prev_done

vars == <<source, repeated, at_once, file, tail_ok, pandas_ok,
          pc, last_timestamp, last_id, sticky_timestamp, count, total_records,
          runs, nerr, batches, start_file, prev_done>>

env == <<source, repeated, at_once, tail_ok, pandas_ok>>

where_clause == where_clause_of(sticky_timestamp, last_timestamp, last_id)

NoRun ==
    /\ pc = "idle"
    /\ last_timestamp = 0
    /\ last_id = None
    /\ sticky_timestamp = None
    /\ count = 0
    /\ total_records = 0
    /\ runs = 0
    /\ nerr = 0
    /\ batches = <<>>
    /\ start_file = AbsentFile
    /\ prev_done = FALSE

\* a store that is absent, a zero-byte file, or a header row only
Init ==
    /\ source \in Sources(MaxId)
    /\ repeated \in {R \in SUBSET source : Cardinality(source) + Cardinality(R) <= MaxId}
    /\ at_once \in 1..MaxPage
    /\ file \in {AbsentFile, [exists |-> TRUE, lines |-> <<>>],
                 [exists |-> TRUE, lines |-> <<COLUMNS_TO_SAVE>>]}
    /\ tail_ok = TRUE
    /\ pandas_ok = TRUE
    /\ NoRun

\* ---- scrape ---------------------------------------------------------------
\* lines 65-83: a new run seeds its cursor from the store
Start ==
    /\ pc \in {"idle", "done", "raised"}
    /\ runs < MaxRuns
    /\ LET c == get_latest_cursor(file, tail_ok, pandas_ok)
       IN /\ last_timestamp' = c.timestamp
          /\ last_id' = c.id
          /\ pc' = IF c.raised THEN "raised" ELSE "loop"
    /\ sticky_timestamp' = None
    /\ count' = 0
    /\ total_records' = 0
    /\ runs' = runs + 1
    /\ nerr' = 0
    /\ batches' = <<>>
    /\ start_file' = file
    /\ prev_done' = (pc = "done")
    /\ UNCHANGED <<env, file>>

\* lines 117-123 with the loop broken on a query error
FetchErrorBreaks ==
    /\ pc = "loop"
    /\ nerr < MaxRetries
    /\ nerr' = nerr + 1
    /\ pc' = "done"
    /\ UNCHANGED <<env, file, last_timestamp, last_id, sticky_timestamp, count,
                   total_records, runs, batches, start_file, prev_done>>

\* lines 117-123: client.execute raises, sleep, continue
FetchError ==
    /\ pc = "loop"
    /\ nerr < MaxRetries
    /\ nerr' = nerr + 1
    /\ UNCHANGED <<env, file, pc, last_timestamp, last_id, sticky_timestamp, count,
                   total_records, runs, batches, start_file, prev_done>>

\* lines 125-133 with the file created on an empty response
FetchEmptyCreates ==
    /\ pc = "loop"
    /\ execute(source, repeated, where_clause, at_once) = <<>>
    /\ IF sticky_timestamp # None
       THEN /\ last_timestamp' = sticky_timestamp
            /\ sticky_timestamp' = None
            /\ last_id' = None
            /\ pc' = "loop"
       ELSE /\ pc' = "done"
            /\ UNCHANGED <<last_timestamp, last_id, sticky_timestamp>>
    /\ file' = to_csv(file, <<>>)
    /\ nerr' = 0
    /\ batches' = Append(batches, [size |-> 0, sticky |-> sticky_timestamp'])
    /\ UNCHANGED <<env, count, total_records, runs, start_file, prev_done>>

\* lines 125-133 without the sticky branch: every empty response ends the run
FetchEmptyStops ==
    /\ pc = "loop"
    /\ execute(source, repeated, where_clause, at_once) = <<>>
    /\ pc' = "done"
    /\ nerr' = 0
    /\ batches' = Append(batches, [size |-> 0, sticky |-> sticky_timestamp])
    /\ UNCHANGED <<env, file, last_timestamp, last_id, sticky_timestamp, count,
                   total_records, runs, start_file, prev_done>>

\* lines 125-133 with the cursor moved one past the exhausted timestamp
FetchEmptySkips ==
    /\ pc = "loop"
    /\ execute(source, repeated, where_clause, at_once) = <<>>
    /\ IF sticky_timestamp # None
       THEN /\ last_timestamp' = sticky_timestamp + 1
            /\ sticky_timestamp' = None
            /\ last_id' = None
            /\ pc' = "loop"
       ELSE /\ pc' = "done"
            /\ UNCHANGED <<last_timestamp, last_id, sticky_timestamp>>
    /\ nerr' = 0
    /\ batches' = Append(batches, [size |-> 0, sticky |-> sticky_timestamp'])
    /\ UNCHANGED <<env, file, count, total_records, runs, start_file, prev_done>>

\* lines 125-133 without lines 128-130: an empty response in sticky mode leaves
\* the cursor where it is and the same query is issued again
FetchEmptyKeepsSticky ==
    /\ pc = "loop"
    /\ execute(source, repeated, where_clause, at_once) = <<>>
    /\ nerr' = 0
    /\ IF sticky_timestamp # None
       THEN UNCHANGED <<pc, batches>>
       ELSE /\ pc' = "done"
            /\ batches' = Append(batches, [size |-> 0, sticky |-> None])
    /\ UNCHANGED <<env, file, last_timestamp, last_id, sticky_timestamp, count,
                   total_records, runs, start_file, prev_done>>

\* lines 125-133: a successful fetch with zero results
FetchEmpty ==
    /\ pc = "loop"
    /\ execute(source, repeated, where_clause, at_once) = <<>>
    /\ IF sticky_timestamp # None
       THEN /\ last_timestamp' = sticky_timestamp
            /\ sticky_timestamp' = None
            /\ last_id' = None
            /\ pc' = "loop"
       ELSE /\ pc' = "done"
            /\ UNCHANGED <<last_timestamp, last_id, sticky_timestamp>>
    /\ nerr' = 0
    /\ batches' = Append(batches, [size |-> 0, sticky |-> sticky_timestamp'])
    /\ UNCHANGED <<env, file, count, total_records, runs, start_file, prev_done>>

\* lines 146-171 with a batch of exactly at_once rows taken for a short one
cursor_after_batch_gt(df, n, sticky, ts, id) ==
    LET batch_last_timestamp == df[Len(df)].timestamp
        batch_last_id == df[Len(df)].id
    IN IF Len(df) > n
       THEN [sticky |-> batch_last_timestamp, ts |-> ts, id |-> batch_last_id]
       ELSE IF sticky # None
            THEN [sticky |-> None, ts |-> sticky, id |-> None]
            ELSE [sticky |-> None, ts |-> batch_last_timestamp, id |-> id]

\* lines 146-171 with a full batch of several timestamps advancing past its
\* last timestamp instead of sticking to it
cursor_after_batch_mixed(df, n, sticky, ts, id) ==
    LET batch_last_timestamp == df[Len(df)].timestamp
        batch_last_id == df[Len(df)].id
        batch_first_timestamp == df[1].timestamp
    IN IF Len(df) >= n /\ batch_first_timestamp = batch_last_timestamp
       THEN [sticky |-> batch_last_timestamp, ts |-> ts, id |-> batch_last_id]
       ELSE IF sticky # None
            THEN [sticky |-> None, ts |-> sticky, id |-> None]
            ELSE [sticky |-> None, ts |-> batch_last_timestamp, id |-> id]

\* lines 146-171 without lines 150 and 156: a full batch sets the sticky
\* timestamp and leaves the id as it was
cursor_after_batch_no_id(df, n, sticky, ts, id) ==
    LET batch_last_timestamp == df[Len(df)].timestamp
    IN IF Len(df) >= n
       THEN [sticky |-> batch_last_timestamp, ts |-> ts, id |-> id]
       ELSE IF sticky # None
            THEN [sticky |-> None, ts |-> sticky, id |-> None]
            ELSE [sticky |-> None, ts |-> batch_last_timestamp, id |-> id]

\* lines 146-171: the cursor after a batch
cursor_after_batch(df, n, sticky, ts, id) ==
    LET batch_last_timestamp == df[Len(df)].timestamp
        batch_last_id == df[Len(df)].id
    IN IF Len(df) >= n
       THEN [sticky |-> batch_last_timestamp, ts |-> ts, id |-> batch_last_id]
       ELSE IF sticky # None
            THEN [sticky |-> None, ts |-> sticky, id |-> None]
            ELSE [sticky |-> None, ts |-> batch_last_timestamp, id |-> id]

\* lines 135-174: the locals after a non-empty response
BatchLocals(df) ==
    LET c == cursor_after_batch(df, at_once, sticky_timestamp, last_timestamp, last_id)
    IN /\ sticky_timestamp' = c.sticky
       /\ last_timestamp' = c.ts
       /\ last_id' = c.id
       /\ count' = count + 1
       /\ total_records' = total_records + Len(df)
       /\ nerr' = 0
       /\ batches' = Append(batches, [size |-> Len(df), sticky |-> c.sticky])

\* lines 135-189: a successful fetch with results, appended to the store
FetchBatch ==
    /\ pc = "loop"
    /\ LET res == execute(source, repeated, where_clause, at_once)
           df == sort_values(res)
           kept == drop_duplicates(df)
       IN /\ res # <<>>
          /\ BatchLocals(df)
          /\ file' = to_csv(file, kept)
          /\ pc' = IF Len(kept) < at_once /\ sticky_timestamp' = None THEN "done" ELSE "loop"
    /\ UNCHANGED <<env, runs, start_file, prev_done>>

\* lines 135-186 with the error of to_csv swallowed: the loop goes on
AppendFailContinues ==
    /\ pc = "loop"
    /\ LET res == execute(source, repeated, where_clause, at_once)
           df == sort_values(res)
       IN /\ res # <<>>
          /\ BatchLocals(df)
    /\ pc' = "loop"
    /\ UNCHANGED <<env, file, runs, start_file, prev_done>>

\* lines 135-186 when to_csv raises because the store cannot be opened for
\* writing: nothing is written and the exception leaves scrape
AppendFail ==
    /\ pc = "loop"
    /\ LET res == execute(source, repeated, where_clause, at_once)
           df == sort_values(res)
       IN /\ res # <<>>
          /\ BatchLocals(df)
    /\ pc' = "raised"
    /\ UNCHANGED <<env, file, runs, start_file, prev_done>>

\* the process is killed between two loop iterations; the locals are lost
Crash ==
    /\ pc = "loop"
    /\ pc' = "idle"
    /\ last_timestamp' = 0
    /\ last_id' = None
    /\ sticky_timestamp' = None
    /\ count' = 0
    /\ total_records' = 0
    /\ nerr' = 0
    /\ batches' = <<>>
    /\ UNCHANGED <<env, file, runs, start_file, prev_done>>

Next ==
    \/ Start
    \/ FetchError
    \/ FetchEmpty
    \/ FetchBatch
    \/ AppendFail
    \/ Crash

Spec == Init /\ [][Next]_vars


\* ---- cursor recovery over arbitrary store files ---------------------------
\* Field tokens of an arbitrary file.  Its first line has two fields, each a
\* column name, some other text or a number (a first line that is a record),
\* and no line has more fields than the first.
CursorTokens(m) ==
    {IntTok(n) : n \in 1..m} \cup {FloatTok(m), TimestampName, TextTok(1), EmptyTok}
FirstLines(m) ==
    {<<a, b>> : a \in {TimestampName, TextTok(1), IntTok(m)},
                b \in {TimestampName, TextTok(1), IntTok(m)}}
OtherLines(m) ==
    {<<a>> : a \in CursorTokens(m)} \cup {<<a, b>> : a \in CursorTokens(m), b \in CursorTokens(m)}
LinesOfLen(n, m) == {<<h>> \o t : h \in FirstLines(m), t \in [1..(n - 1) -> OtherLines(m)]}
CursorFiles(k, m) ==
    {AbsentFile, [exists |-> TRUE, lines |-> <<>>]}
        \cup {[exists |-> TRUE, lines |-> l] : l \in UNION {LinesOfLen(n, m) : n \in 1..k}}

InitCursor ==
    /\ source = {}
    /\ repeated = {}
    /\ at_once = 1
    /\ file \in CursorFiles(MaxFileLines, MaxTokInt)
    /\ tail_ok \in BOOLEAN
    /\ pandas_ok \in BOOLEAN
    /\ NoRun

NextRecover == Start

SpecCursor == InitCursor /\ [][NextRecover]_vars

\* ---- sources with one timestamp only --------------------------------------
InitSticky ==
    /\ at_once \in 2..MaxStickyPage
    /\ \E T \in 1..MaxTs, r \in 0..(MaxStickyPage - 1) :
          /\ r < at_once
          /\ source = {Event(T, i) : i \in 1..(2 * at_once + r)}
    /\ repeated = {}
    /\ file = AbsentFile
    /\ tail_ok = TRUE
    /\ pandas_ok = TRUE
    /\ NoRun

SpecSticky == InitSticky /\ [][Next]_vars

\* the harvester with a remote whose fetches do not fail forever: the try of
\* lines 117-123 returns a response again and again while the loop runs.  This
\* is WF_vars(FetchEmpty \/ FetchBatch) written out: one of the two is enabled
\* exactly when pc = "loop"
FairSpec ==
    Spec /\ ([]<>(pc # "loop") \/ []<><<FetchEmpty \/ FetchBatch>>_vars)

\* ---- properties -----------------------------------------------------------
Header == COLUMNS_TO_SAVE
\* the data rows of the store, as (timestamp, id of the originating event)
IsRow(l) == Len(l) = 2 /\ l[1].kind = "int" /\ l[2].kind = "text"
Rows == SelectSeq(file.lines, IsRow)
Occurrences(e) == Cardinality({i \in 1..Len(Rows) : Rows[i] = RowOf(e)})
\* the run is the first one and found no store
FreshRun == runs = 1 /\ start_file = AbsentFile
\* the rows the remote lists in total
AllRows == Listing(source, repeated)

\* C1: when a run started on an absent store terminates, every event of a
\* source that lists each event once is in the store exactly once
C1_NoGap ==
    (FreshRun /\ pc = "done" /\ repeated = {}) => \A e \in source : Occurrences(e) = 1

\* C2: a run that follows a terminated run against the same non-empty source
\* appends nothing
C2_IdempotentResume ==
    (prev_done /\ source # {}) => file = start_file

\* C3: the records of the store are sorted ascending by (timestamp, id)
C3_StoreSorted ==
    \A i, j \in 1..Len(Rows) :
        i < j => ~Before(Event(Rows[j][1].val, Rows[j][2].val),
                         Event(Rows[i][1].val, Rows[i][2].val))

\* C4: the store holds no two records of the same event id
C4_StoreUnique ==
    \A i, j \in 1..Len(Rows) : i # j => Rows[i][2].val # Rows[j][2].val

\* the store has no data record: absent, zero bytes, or the header row only
NoDataRecord(f) ==
    \/ ~f.exists
    \/ f.lines = <<>>
    \/ Len(f.lines) = 1 /\ Contains(f.lines[1], TimestampName)
\* the store has a header naming timestamp and a last record with an integer there
HasLastRecord(f) ==
    /\ f.exists
    /\ Len(f.lines) >= 2
    /\ Contains(f.lines[1], TimestampName)
    /\ Len(f.lines[Len(f.lines)]) >= index(f.lines[1], TimestampName)
    /\ f.lines[Len(f.lines)][index(f.lines[1], TimestampName)].kind = "int"
LastTimestamp(f) == f.lines[Len(f.lines)][index(f.lines[1], TimestampName)].val

Malformed(f) ==
    /\ f.exists
    /\ f.lines # <<>>
    /\ \/ ~Contains(f.lines[1], TimestampName)
       \/ Len(f.lines[Len(f.lines)]) < index(f.lines[1], TimestampName)
       \/ f.lines[Len(f.lines)][index(f.lines[1], TimestampName)].kind # "int"
Unreadable == ~tail_ok /\ ~pandas_ok

\* C6: recovery never raises and returns (t, None); for an unreadable or
\* malformed store it returns (0, None)
C6_RecoveryNeverFails ==
    (runs = 1 /\ batches = <<>> /\ pc # "idle") =>
        /\ pc = "loop"
        /\ last_id = None
        /\ (start_file.exists /\ (Unreadable \/ Malformed(start_file))) => last_timestamp = 0

\* the source is 2 * at_once + r events, 0 < r < at_once, at one timestamp
StickyShape(T, r) ==
    /\ 0 < r
    /\ r < at_once
    /\ source = {Event(T, i) : i \in 1..(2 * at_once + r)}
    /\ repeated = {}

\* C7: such a source is fetched in three batches of at_once, at_once and r
\* rows, sticky at T after the first two and not sticky after the third, and
\* the store ends with the 2 * at_once + r records (in a run no append of
\* which has failed)
C7_StickyPagination ==
    \A T \in 1..MaxTs, r \in 1..MaxStickyPage :
        (FreshRun /\ pc \in {"loop", "done"} /\ StickyShape(T, r)) =>
            /\ Len(batches) <= 3
            /\ Len(batches) >= 1 => batches[1] = [size |-> at_once, sticky |-> T]
            /\ Len(batches) >= 2 => batches[2] = [size |-> at_once, sticky |-> T]
            /\ Len(batches) >= 3 => batches[3] = [size |-> r, sticky |-> None]
            /\ (pc = "done") <=> (Len(batches) = 3)
            /\ pc = "done" =>
                  /\ sticky_timestamp = None
                  /\ file.lines = <<Header>> \o RowsOf(AllRows)
                  /\ Len(Rows) = 2 * at_once + r

C7_Witness ==
    /\ FreshRun
    /\ pc = "done"
    /\ \E T \in 1..MaxTs, r \in 1..MaxStickyPage : StickyShape(T, r)
    /\ Len(batches) = 3
    /\ Len(Rows) > 2 * at_once

\* C8: a source listing k rows, 1 <= k < at_once, is read in one fetch; the
\* run ends after that batch without a sticky timestamp and the store holds
\* every event once
C8_ShortBatch ==
    (FreshRun /\ Len(AllRows) >= 1 /\ Len(AllRows) < at_once) =>
        /\ pc = "loop" => batches = <<>>
        /\ pc = "done" =>
              /\ batches = <<[size |-> Len(AllRows), sticky |-> None]>>
              /\ sticky_timestamp = None
              /\ file.lines = <<Header>> \o RowsOf(Listing(source, {}))

C8_Witness ==
    /\ FreshRun
    /\ pc = "done"
    /\ Len(AllRows) = 2
    /\ at_once = 3
    /\ Len(batches) = 1
    /\ Len(Rows) = Cardinality(source)

\* C9: with an empty source the run ends at its first successful fetch,
\* appends nothing and leaves the store as it found it
C9_EmptySource ==
    (source = {} /\ runs >= 1) =>
        /\ file = start_file
        /\ pc = "loop" => batches = <<>>
        /\ pc = "done" =>
              /\ batches = <<[size |-> 0, sticky |-> None]>>
              /\ total_records = 0
              /\ count = 0
        /\ pc # "raised"

C9_Witness ==
    /\ source = {}
    /\ pc = "done"
    /\ file = AbsentFile
    /\ Len(batches) = 1

\* C10: a failed fetch neither ends the run nor changes the cursor, the
\* counters or the store, and the next fetch has the same filter
C10_RetryKeepsState ==
    [][(nerr' = nerr + 1) =>
          /\ pc = "loop"
          /\ pc' = "loop"
          /\ UNCHANGED <<file, last_timestamp, last_id, sticky_timestamp, count, total_records>>
          /\ where_clause' = where_clause]_vars

C10_Witness ==
    /\ pc = "loop"
    /\ nerr = MaxRetries
    /\ nerr >= 2
    /\ sticky_timestamp # None
    /\ count >= 1


\* ---- steps of the loop ----------------------------------------------------
\* the response of the fetch the next iteration issues
Response == execute(source, repeated, where_clause, at_once)
\* the step is an iteration whose fetch succeeded
Fetched == Len(batches') = Len(batches) + 1
DataRows(f) == SelectSeq(f.lines, IsRow)
\* the records this run has added to the store
Appended == SubSeq(Rows, Len(DataRows(start_file)) + 1, Len(Rows))

C12_TotalRecords ==
    pc = "done" => total_records = Len(Appended)

\* C13: after an appended non-empty batch the run stops exactly when the
\* batch was short and the mode before the fetch was not sticky
C13_TerminationRule ==
    [][(Fetched /\ Response # <<>> /\ pc' # "raised") =>
          ((pc' = "done") <=> (Len(Response) < at_once /\ sticky_timestamp = None))]_vars


\* C14: an empty response in sticky mode at T makes the cursor the timestamp
\* cursor T with no id, appends nothing and keeps the run going; an empty
\* response in normal mode ends the run with store and cursor unchanged
C14_ZeroResults ==
    [][(Fetched /\ Response = <<>>) =>
          /\ file' = file
          /\ count' = count
          /\ total_records' = total_records
          /\ sticky_timestamp # None =>
                /\ sticky_timestamp' = None
                /\ last_timestamp' = sticky_timestamp
                /\ last_id' = None
                /\ pc' = "loop"
                /\ where_clause' = [op |-> "timestamp_gt", timestamp |-> sticky_timestamp, id |-> None]
          /\ sticky_timestamp = None =>
                /\ pc' = "done"
                /\ UNCHANGED <<last_timestamp, last_id, sticky_timestamp>>]_vars

\* an empty response has just ended sticky mode at timestamp 1 and the run goes on
C14_Witness ==
    /\ pc = "loop"
    /\ Len(batches) >= 2
    /\ batches[Len(batches)] = [size |-> 0, sticky |-> None]
    /\ batches[Len(batches) - 1].sticky = 1
    /\ last_timestamp = 1
    /\ last_id = None
    /\ \E e \in source : e.timestamp > 1

\* the last row of the response in (timestamp, id) order
LastOf(res) == CHOOSE x \in {res[i] : i \in 1..Len(res)} :
                  \A y \in {res[i] : i \in 1..Len(res)} : ~Before(x, y)

\* C15: a response of at_once rows or more leaves the run sticky at the
\* timestamp and id of its last row and does not end it, whatever the mode
\* and whether or not all rows have one timestamp
C15_FullBatch ==
    [][(Fetched /\ Len(Response) >= at_once /\ pc' # "raised") =>
          /\ sticky_timestamp' = LastOf(Response).timestamp
          /\ last_id' = LastOf(Response).id
          /\ pc' = "loop"]_vars

\* a full batch of two timestamps has been appended
C15_Witness ==
    /\ pc = "loop"
    /\ FreshRun
    /\ Len(batches) = 1
    /\ batches[1].size = at_once
    /\ at_once >= 2
    /\ sticky_timestamp = 2
    /\ Rows[1][1].val = 1
    /\ Rows[Len(Rows)][1].val = 2

Stored(e) == \E i \in 1..Len(Rows) : Rows[i] = RowOf(e)

\* C16: at the head of the loop of a run started on an absent store, every
\* event up to the cursor is in the store: timestamp <= T in normal mode,
\* timestamp < T or timestamp = T and id <= i in sticky mode
C16_CursorMeaning ==
    (FreshRun /\ pc = "loop") =>
        IF sticky_timestamp = None
        THEN \A e \in source : e.timestamp <= last_timestamp => Stored(e)
        ELSE \A e \in source :
                (e.timestamp < sticky_timestamp
                   \/ (e.timestamp = sticky_timestamp /\ e.id <= last_id)) => Stored(e)

\* sticky at timestamp 1 was exhausted, the cursor is 1 and later events wait
C16_Witness ==
    /\ FreshRun
    /\ pc = "loop"
    /\ sticky_timestamp = None
    /\ last_timestamp = 1
    /\ Cardinality({e \in source : e.timestamp = 1}) >= 2
    /\ \E e \in source : e.timestamp > 1 /\ ~Stored(e)

\* the events of the response and the lines a step adds behind those it found
ResponseEvents == {Response[i] : i \in 1..Len(Response)}
HeldLines == IF file.exists THEN file.lines ELSE <<COLUMNS_TO_SAVE>>
AddedLines == SubSeq(file'.lines, Len(HeldLines) + 1, Len(file'.lines))
EventOfRow(l) == CHOOSE e \in ResponseEvents : RowOf(e) = l

\* C17: every step keeps the lines of the store as a prefix of the new store;
\* an appended batch adds one record for each id of the response, in
\* (timestamp, id) order, whether or not the store already holds that id
C17_AppendOnly ==
    [][/\ file.exists =>
             /\ file'.exists
             /\ Len(file'.lines) >= Len(file.lines)
             /\ SubSeq(file'.lines, 1, Len(file.lines)) = file.lines
       /\ (Fetched /\ Response # <<>> /\ pc' # "raised") =>
             /\ file'.exists
             /\ Len(file'.lines) >= Len(HeldLines)
             /\ SubSeq(file'.lines, 1, Len(HeldLines)) = HeldLines
             /\ Len(AddedLines) = Cardinality(ResponseEvents)
             /\ \A i \in 1..Len(AddedLines) :
                   \E e \in ResponseEvents : AddedLines[i] = RowOf(e)
             /\ \A i, j \in 1..Len(AddedLines) :
                   i < j => Before(EventOfRow(AddedLines[i]), EventOfRow(AddedLines[j]))]_vars

\* a resumed run has appended, behind the records it found, a batch that the
\* remote listed with a repeated id and that holds an event already stored
C17_Witness ==
    /\ runs = 2
    /\ Len(batches) = 1
    /\ batches[1].size > Len(Appended)
    /\ Len(Appended) >= 1
    /\ \E e \in source : Occurrences(e) >= 2

\* C18: when fetches do not fail forever every run leaves the loop; a failed
\* fetch never ends the run nor raises, it leaves the run where it was
C18_Termination ==
    /\ (pc = "loop") ~> (pc \in {"done", "raised", "idle"})
    /\ [][nerr' = nerr + 1 =>
             /\ pc = "loop"
             /\ pc' = "loop"
             /\ UNCHANGED <<file, last_timestamp, last_id, sticky_timestamp, batches>>]_vars

\* a run has ended after failed fetches and several successful ones, the
\* last of them the empty response that ends it
C18_Witness ==
    /\ pc = "done"
    /\ Len(batches) >= 3
    /\ batches[Len(batches)].size = 0
    /\ \E i \in 1..Len(batches) : batches[i].sticky # None
    /\ Rows # <<>>

\* the last timestamp of the store the run found
StartRows == DataRows(start_file)
StartLast == StartRows[Len(StartRows)][1].val

\* C19: a run started on a store whose last timestamp L has at least at_once
\* events in the source, while the source has events after L, ends with an
\* event after L appended
C19_Progress ==
    (/\ pc = "done"
     /\ StartRows # <<>>
     /\ Cardinality({e \in source : e.timestamp = StartLast}) >= at_once
     /\ \E e \in source : e.timestamp > StartLast)
        => \E i \in 1..Len(Appended) : Appended[i][1].val > StartLast

\* C20: at the head of the loop sticky_timestamp is set exactly when last_id
\* is set, and a set sticky_timestamp is not below last_timestamp
C20_CursorShape ==
    pc = "loop" =>
        /\ (sticky_timestamp # None) <=> (last_id # None)
        /\ sticky_timestamp # None => sticky_timestamp >= last_timestamp

\* sticky mode has been left on an empty response and entered again at a
\* later timestamp
C20_Witness ==
    /\ pc = "loop"
    /\ sticky_timestamp # None
    /\ last_id # None
    /\ sticky_timestamp > last_timestamp
    /\ last_timestamp >= 1
    /\ \E i \in 1..Len(batches) : batches[i].size = 0

====
